---- MODULE Spec2Model ----
(***************************************************************************)
(* A model of update_scores.py: the live score updater that polls a        *)
(* spreadsheet, extracts the boards of a round into scores.json and        *)
(* optionally pushes that file to a GitHub repository.                     *)
(*                                                                         *)
(* Files, the remote repository and the clock are the environment; the    *)
(* program is the sequential script of the __main__ block, one action per  *)
(* step that touches the environment.                                      *)
(***************************************************************************)
EXTENDS Integers, Sequences, FiniteSets, TLC

VARIABLES
    pc,                 \* position of the script
    phase,              \* STARTING, RUNNING or how the process ended
    exitCode,           \* exit status of the process, -1 while it runs
    config,             \* state of config.json: "ok", "missing", "invalid"
    boards_per_round,   \* config.get('boards_per_round', 16)
    GITHUB_TOKEN,       \* TRUE iff the environment variable is set
    repoInfo,           \* state of githubtokenofctcba.txt
    hasSheet,           \* TRUE iff the workbook holds the sheet R<round>
    sheet,              \* the cells of that sheet in the source workbook
    tmp,                \* the scratch file temp_scores.xls
    out,                \* the output file scores.json
    remote,             \* scores.json and config.json in the repository
    copyExc,            \* what shutil.copy raised in the current tick
    procExc,            \* what the second try block caught in the current tick
    pushExc,            \* what the lookup or the PUT of the current tick ran into
    updated,            \* loop local: was_updated
    match_is_complete,  \* loop local: is_complete
    upFile,             \* upload_file_to_github: the file being uploaded
    upRet,              \* upload_file_to_github: where the call returns to
    sha,                \* upload_file_to_github: local sha
    lastPut,            \* the last PUT request sent
    elapsed,            \* time.time() - start_time
    blankWrites,        \* history: completed calls of generate_blank_scores_file
    tickOut,            \* history: scores.json as it was when the tick began
    putSent,            \* history: a PUT was sent since the tick began
    calls,              \* history: calls of process_scoresheet_data begun
    first               \* history: what the first call returned and left

vars == << pc, phase, exitCode, config, boards_per_round, GITHUB_TOKEN,
           repoInfo, hasSheet, sheet, tmp, out, remote, copyExc, procExc,
           pushExc, updated, match_is_complete, upFile, upRet, sha, lastPut, elapsed,
           blankWrites, tickOut, putSent, calls, first >>

----------------------------------------------------------------------------
(* Bounds of the model                                                     *)

MaxBoards == 2      \* boards per round and board rows of a sheet
MaxCalls == 2       \* calls of process_scoresheet_data in a row on one workbook

----------------------------------------------------------------------------
(* Cells of a sheet as pandas hands them over: NaN for an empty cell, a    *)
(* float (kept in tenths), or a string (a sequence of characters).         *)

NaN == [k |-> "nan", v |-> 0, s |-> << >>]
Num(t) == [k |-> "num", v |-> t, s |-> << >>]
Str(chars) == [k |-> "str", v |-> 0, s |-> chars]
None == [k |-> "none", v |-> 0, s |-> << >>]

Digit == {"0", "1", "2", "3", "4", "5", "6", "7", "8", "9"}

DigitVal(c) ==
    CASE c = "0" -> 0 [] c = "1" -> 1 [] c = "2" -> 2 [] c = "3" -> 3
      [] c = "4" -> 4 [] c = "5" -> 5 [] c = "6" -> 6 [] c = "7" -> 7
      [] c = "8" -> 8 [] c = "9" -> 9

DigitChar(d) ==
    CASE d = 0 -> "0" [] d = 1 -> "1" [] d = 2 -> "2" [] d = 3 -> "3"
      [] d = 4 -> "4" [] d = 5 -> "5" [] d = 6 -> "6" [] d = 7 -> "7"
      [] d = 8 -> "8" [] d = 9 -> "9"

RECURSIVE lstrip(_)
lstrip(s) == IF s # << >> /\ Head(s) = " " THEN lstrip(Tail(s)) ELSE s

RECURSIVE rstrip(_)
rstrip(s) ==
    IF s # << >> /\ s[Len(s)] = " " THEN rstrip(SubSeq(s, 1, Len(s) - 1)) ELSE s

\* str.strip()
strip(s) == rstrip(lstrip(s))

RECURSIVE Digits(_)
Digits(n) == IF n < 10 THEN << DigitChar(n) >>
             ELSE Digits(n \div 10) \o << DigitChar(n % 10) >>

RECURSIVE DigitsValue(_)
DigitsValue(s) ==
    IF s = << >> THEN 0
    ELSE 10 * DigitsValue(SubSeq(s, 1, Len(s) - 1)) + DigitVal(s[Len(s)])

\* str(value) of a cell that is not NaN
str(c) ==
    IF c.k = "str" THEN c.s
    ELSE IF c.k = "num" THEN Digits(c.v \div 10) \o << "." >> \o Digits(c.v % 10)
    ELSE << "n", "a", "n" >>

\* pd.isna(value), pd.notna(value)
isna(c) == c.k = "nan"
notna(c) == ~isna(c)

\* int(value): the integer, or the exception it raises
IntOk(c) ==
    \/ c.k = "num"
    \/ /\ c.k = "str"
       /\ strip(c.s) # << >>
       /\ \A j \in 1..Len(strip(c.s)) : strip(c.s)[j] \in Digit

int(c) == IF c.k = "num" THEN c.v \div 10 ELSE DigitsValue(strip(c.s))

----------------------------------------------------------------------------
(* The sheet as the DataFrame of pd.read_excel(..., header=None): a grid   *)
(* addressed by 0-based row and column. The template keeps one board every *)
(* third row from row 9 on; the model stores those rows and takes every    *)
(* other cell of the grid to be empty.                                     *)

Cols == {0, 6, 12, 15, 18, 24, 27, 30, 33, 36, 39}

NRows(df) == IF Len(df) = 0 THEN 9 ELSE 9 + (Len(df) - 1) * 3 + 1

\* df.iloc[row, col] raises IndexError outside the grid
InGrid(df, row, col) == row >= 0 /\ row < NRows(df) /\ col >= 0 /\ col <= 39

iloc(df, row, col) ==
    IF row >= 9 /\ (row - 9) % 3 = 0 /\ col \in Cols
    THEN df[((row - 9) \div 3) + 1][col]
    ELSE NaN

----------------------------------------------------------------------------
(* process_scoresheet_data, lines 128-151: the boards, the snapshot and    *)
(* the completion test                                                     *)

row_index_skip(i) == 9 + i * 3
row_index(i) == 9 + (i - 1) * 3

\* lines 138-141: NaN values of the nested dicts become None
NullMap(value) == IF isna(value) THEN None ELSE value

\* lines 133-137: the exception raised while board_data is built, "none" if none
board_exc(df, row) ==
    IF ~InGrid(df, row, 0) THEN "IndexError"
    ELSE IF ~IntOk(iloc(df, row, 0)) THEN "ValueError"
    ELSE "none"

board_data(df, row) ==
    [boardNumber |-> int(iloc(df, row, 0)),
     openRoom    |-> [contract |-> NullMap(iloc(df, row, 6)),
                      scoreNS  |-> NullMap(iloc(df, row, 12)),
                      scoreEW  |-> NullMap(iloc(df, row, 15))],
     closedRoom  |-> [contract |-> NullMap(iloc(df, row, 18)),
                      scoreNS  |-> NullMap(iloc(df, row, 24)),
                      scoreEW  |-> NullMap(iloc(df, row, 27))],
     diff        |-> [ns |-> NullMap(iloc(df, row, 30)),
                      ew |-> NullMap(iloc(df, row, 33))],
     imp         |-> [ns |-> NullMap(iloc(df, row, 36)),
                      ew |-> NullMap(iloc(df, row, 39))]]

\* lines 130-142: the loop over the boards, stopped by the first exception
RECURSIVE boards_loop(_, _, _, _)
boards_loop(df, i, boards_to_play, boards_data) ==
    IF i > boards_to_play THEN [exc |-> "none", boards |-> boards_data]
    ELSE IF board_exc(df, row_index(i)) # "none"
         THEN [exc |-> board_exc(df, row_index(i)), boards |-> boards_data]
         ELSE boards_loop(df, i + 1, boards_to_play,
                          Append(boards_data, board_data(df, row_index(i))))

totals == [impNS |-> None, impEW |-> None, resultVP |-> None,
           totalIMPFinal |-> None, finalResult |-> None]

last_board_row(boards_to_play) == 9 + (boards_to_play - 1) * 3

\* line 150
nonblank(value) == notna(value) /\ strip(str(value)) # << >>

is_complete_open_only(df, boards_to_play) ==
    nonblank(iloc(df, last_board_row(boards_to_play), 6))

is_complete_test(df, boards_to_play) ==
    /\ nonblank(iloc(df, last_board_row(boards_to_play), 6))
    /\ nonblank(iloc(df, last_board_row(boards_to_play), 18))

\* lines 128-151 as one evaluation: what the try block raised before the
\* output file is opened, the snapshot and the completion flag
extract(df, sheet_present, boards_to_play) ==
    IF ~sheet_present
    THEN [exc |-> "ValueError", boards |-> << >>, is_complete |-> FALSE]
    ELSE LET r == boards_loop(df, 1, boards_to_play, << >>) IN
         IF r.exc # "none"
         THEN [exc |-> r.exc, boards |-> r.boards, is_complete |-> FALSE]
         ELSE IF ~InGrid(df, last_board_row(boards_to_play), 18)
              THEN [exc |-> "IndexError", boards |-> r.boards, is_complete |-> FALSE]
              ELSE [exc |-> "none", boards |-> r.boards,
                    is_complete |-> is_complete_test(df, boards_to_play)]

----------------------------------------------------------------------------
(* json.dump: None is written as null, a float as a number, a string as a  *)
(* string, the int of boardNumber as an integer                            *)

JNull == [j |-> "null", v |-> 0, s |-> << >>]
JInt(n) == [j |-> "int", v |-> n, s |-> << >>]

json_value(value) ==
    IF value.k = "none" THEN JNull
    ELSE IF value.k = "num" THEN [j |-> "float", v |-> value.v, s |-> << >>]
    ELSE IF value.k = "str" THEN [j |-> "string", v |-> 0, s |-> value.s]
    ELSE [j |-> "NaN", v |-> 0, s |-> << >>]

json_dict(d) == [key \in DOMAIN d |-> json_value(d[key])]

json_board(b) ==
    [boardNumber |-> JInt(b.boardNumber),
     openRoom    |-> json_dict(b.openRoom),
     closedRoom  |-> json_dict(b.closedRoom),
     diff        |-> json_dict(b.diff),
     imp         |-> json_dict(b.imp)]

json_dump(output_data) ==
    [boards |-> [n \in DOMAIN output_data.boards |-> json_board(output_data.boards[n])],
     totals |-> json_dict(output_data.totals)]

\* line 166
blank_data == [boards |-> << >>, totals |-> totals]

----------------------------------------------------------------------------
(* The sheets the model reads: the template with the first k boards        *)
(* entered, as it stands or with one cell overwritten by an arbitrary      *)
(* value                                                                   *)

FilledRow(i) ==
    [c \in Cols |->
        CASE c = 0  -> Num(10 * i)
          [] c = 6  -> Str(<< "3", "N" >>)
          [] c = 12 -> Num(4000)
          [] c = 18 -> Str(<< "4", "S" >>)
          [] c = 27 -> Num(500)
          [] c = 30 -> Num(3500)
          [] c = 36 -> Num(80)
          [] OTHER  -> NaN]

EmptyRow(i) == [c \in Cols |-> IF c = 0 THEN Num(10 * i) ELSE NaN]

Fixture(r, k) == [i \in 1..r |-> IF i <= k THEN FilledRow(i) ELSE EmptyRow(i)]

CellValues ==
    {NaN, Str(<< " " >>), Str(<< "x", " " >>), Str(<< "7" >>), Num(0), Num(25)}

WithCell(df, i, c, value) == [df EXCEPT ![i][c] = value]

Sheets ==
    UNION {{Fixture(r, k) : k \in 0..r}
           \cup {WithCell(Fixture(r, k), i, c, value) :
                    k \in 0..r, i \in 1..r, c \in Cols, value \in CellValues}
           : r \in 0..MaxBoards}

MainSheets == {Fixture(MaxBoards, k) : k \in 0..MaxBoards}

\* config.get('boards_per_round', 16)
BoardCounts == (1..MaxBoards) \cup {16}

----------------------------------------------------------------------------
(* Files and the remote repository                                         *)

NoData == json_dump(blank_data)
NoFile == [st |-> "absent", data |-> NoData]
StaleData == json_dump([boards |-> << board_data(Fixture(1, 1), 9) >>, totals |-> totals])

NoTmp == [st |-> "absent", df |-> << >>]
NoSha == [set |-> FALSE, data |-> NoData]
NoFirst == [copyExc |-> "none", procExc |-> "none", updated |-> FALSE,
            is_complete |-> FALSE, out |-> NoFile]
NoPut == [sent |-> FALSE, file |-> "none", withSha |-> FALSE, existed |-> FALSE,
          data |-> NoData]

\* line 188, 199, 228: GITHUB_TOKEN and REPO_SLUG

----------------------------------------------------------------------------
(* Exceptions: the class hierarchy of Python 3 and of requests, and the    *)
(* choice of the first except clause that matches                          *)

Parent(cls) ==
    CASE cls = "FileNotFoundError" -> "OSError"
      [] cls = "PermissionError"   -> "OSError"
      [] cls = "HTTPError"         -> "RequestException"
      [] cls = "ConnectionError"   -> "RequestException"
      [] cls = "RequestException"  -> "OSError"
      [] cls = "OSError"           -> "Exception"
      [] cls = "ValueError"        -> "Exception"
      [] cls = "UnicodeDecodeError" -> "ValueError"
      [] cls = "IndexError"        -> "Exception"
      [] cls = "TypeError"         -> "Exception"
      [] cls = "Exception"         -> "BaseException"
      [] cls = "KeyboardInterrupt" -> "BaseException"
      [] cls = "SystemExit"        -> "BaseException"
      [] OTHER                     -> "object"

RECURSIVE IsInstance(_, _)
IsInstance(exc, cls) ==
    IF exc = cls THEN TRUE
    ELSE IF exc \in {"object", "BaseException"} THEN FALSE
    ELSE IsInstance(Parent(exc), cls)

\* the body of the first clause of `clauses` that catches exc, "propagate" if none
RECURSIVE Handler(_, _)
Handler(exc, clauses) ==
    IF clauses = << >> THEN "propagate"
    ELSE IF \E cls \in Head(clauses).classes : IsInstance(exc, cls)
         THEN Head(clauses).body
         ELSE Handler(exc, Tail(clauses))

\* lines 120-125; IOError is OSError
copy_clauses ==
    << [classes |-> {"OSError", "PermissionError"}, body |-> "return False, False"],
       [classes |-> {"FileNotFoundError"}, body |-> "exit()"] >>

\* line 157
process_clauses == << [classes |-> {"Exception"}, body |-> "return False, False"] >>

\* lines 236-241
loop_clauses ==
    << [classes |-> {"KeyboardInterrupt"}, body |-> "break"],
       [classes |-> {"Exception"}, body |-> "sleep"] >>

\* lines 46-48
slug_clauses == << [classes |-> {"FileNotFoundError"}, body |-> "return None"] >>

\* lines 29-30: open() and f.read() of the descriptor file
slug_read_exc ==
    CASE repoInfo = "missing"     -> "FileNotFoundError"
      [] repoInfo = "undecodable" -> "UnicodeDecodeError"
      [] OTHER                    -> "none"

\* lines 26-48: the file is missing, is not text in the locale's encoding,
\* holds no `repo:` field, holds a URL that is no github.com/<owner>/<name>,
\* or yields the slug; exc is the exception the call raises, if any
get_repo_slug_from_file ==
    IF slug_read_exc # "none"
    THEN IF Handler(slug_read_exc, slug_clauses) = "return None"
         THEN [exc |-> "none", slug |-> "None"]
         ELSE [exc |-> slug_read_exc, slug |-> "None"]
    ELSE [exc |-> "none",
          slug |-> CASE repoInfo = "norepo" -> "None"
                     [] repoInfo = "badurl" -> "None"
                     [] repoInfo = "slug"   -> "owner/name"]

\* lines 184-185, 198, 228
PushEnabled == GITHUB_TOKEN /\ get_repo_slug_from_file.slug # "None"

\* exit() raises SystemExit(None); the status of the process is then 0
exit_status(code) == IF code = "None" THEN 0 ELSE 1

\* line 218
timeout_seconds == 2 * 60 * 60

\* line 17
POLLING_INTERVAL_SECONDS == 300

----------------------------------------------------------------------------
(* The script                                                              *)

envVars == << config, boards_per_round, GITHUB_TOKEN, repoInfo, hasSheet, sheet >>
tickVars == << copyExc, procExc, pushExc, updated, match_is_complete, tickOut, putSent >>
callVars == << calls, first >>
upVars == << upFile, upRet, sha, lastPut >>

Init ==
    /\ pc = "load_config"
    /\ phase = "STARTING"
    /\ exitCode = -1
    /\ config \in {"ok", "missing", "invalid"}
    /\ boards_per_round \in BoardCounts
    /\ GITHUB_TOKEN \in BOOLEAN
    /\ repoInfo \in {"slug", "missing", "norepo", "badurl", "undecodable"}
    /\ \/ hasSheet = FALSE /\ sheet = << >>
       \/ hasSheet = TRUE /\ sheet \in MainSheets
    /\ tmp = NoTmp
    /\ out \in {NoFile, [st |-> "whole", data |-> StaleData]}
    /\ IF PushEnabled
       THEN remote \in [scores : {NoFile, [st |-> "whole", data |-> StaleData]},
                        config : BOOLEAN]
       ELSE remote = [scores |-> [st |-> "whole", data |-> StaleData], config |-> TRUE]
    /\ copyExc = "none"
    /\ procExc = "none"
    /\ pushExc = "none"
    /\ updated = FALSE
    /\ match_is_complete = FALSE
    /\ upFile = "none"
    /\ upRet = "none"
    /\ sha = NoSha
    /\ lastPut = NoPut
    /\ elapsed = 0
    /\ blankWrites = 0
    /\ tickOut = out
    /\ putSent = FALSE
    /\ calls = 0
    /\ first = NoFirst

\* the process ends
End(how, status) ==
    /\ pc' = "done"
    /\ phase' = how
    /\ exitCode' = status

\* lines 100-110, 176
load_config ==
    /\ pc = "load_config"
    /\ IF config = "ok"
       THEN pc' = "startup" /\ UNCHANGED << phase, exitCode >>
       ELSE End("FATAL", exit_status("None"))
    /\ UNCHANGED << envVars, callVars, blankWrites, tmp, out, remote, tickVars, upVars, elapsed >>

\* startup with the blank file generated only on the upload branch
startup_blank_only_with_push ==
    /\ pc = "startup"
    /\ IF get_repo_slug_from_file.exc # "none"
       THEN End("CRASHED", 1) /\ UNCHANGED << upFile, upRet >>
       ELSE /\ IF PushEnabled
               THEN pc' = "up_check" /\ upFile' = "config" /\ upRet' = "blank_open"
               ELSE pc' = "start_loop" /\ UNCHANGED << upFile, upRet >>
            /\ UNCHANGED << phase, exitCode >>
    /\ UNCHANGED << envVars, callVars, blankWrites, tmp, out, remote,
                    tickVars, sha, lastPut, elapsed >>

\* lines 184-206: the descriptor is read outside any try block; the first
\* upload is that of config.json
startup ==
    /\ pc = "startup"
    /\ IF get_repo_slug_from_file.exc # "none"
       THEN End("CRASHED", 1) /\ UNCHANGED << upFile, upRet >>
       ELSE /\ IF PushEnabled
               THEN pc' = "up_check" /\ upFile' = "config" /\ upRet' = "blank_open"
               ELSE pc' = "blank_open" /\ UNCHANGED << upFile, upRet >>
            /\ UNCHANGED << phase, exitCode >>
    /\ UNCHANGED << envVars, callVars, blankWrites, tmp, out, remote, tickVars,
                    sha, lastPut, elapsed >>

\* line 167: open(..., 'w') truncates scores.json; outside any try block
blank_open ==
    /\ pc = "blank_open"
    /\ \E opened \in BOOLEAN :
          IF opened
          THEN /\ out' = [st |-> "empty", data |-> NoData]
               /\ pc' = "blank_dump"
               /\ UNCHANGED << phase, exitCode >>
          ELSE /\ End("CRASHED", 1)
               /\ UNCHANGED out
    /\ UNCHANGED << envVars, callVars, blankWrites, tmp, remote, tickVars, upVars, elapsed >>

\* lines 168-169, 207-215
blank_dump ==
    /\ pc = "blank_dump"
    /\ out' = [st |-> "whole", data |-> json_dump(blank_data)]
    /\ IF PushEnabled
       THEN pc' = "up_check" /\ upFile' = "scores" /\ upRet' = "start_loop"
       ELSE pc' = "start_loop" /\ UNCHANGED << upFile, upRet >>
    /\ blankWrites' = blankWrites + 1
    /\ UNCHANGED << phase, exitCode, envVars, callVars, tmp, remote, tickVars,
                    sha, lastPut, elapsed >>

\* lines 217-220
start_loop ==
    /\ pc = "start_loop"
    /\ pc' = "loop_top"
    /\ phase' = "RUNNING"
    /\ elapsed' = 0
    /\ UNCHANGED << exitCode, envVars, callVars, blankWrites, tmp, out, remote, tickVars, upVars >>

----------------------------------------------------------------------------
(* upload_file_to_github(file_path, token, repo_slug, commit_message)     *)

InLoop == upRet = "check_complete"

LocalExists(file) == IF file = "scores" THEN out.st # "absent" ELSE TRUE
RemoteExists(file) == IF file = "scores" THEN remote.scores.st # "absent"
                      ELSE remote.config
RemoteData(file) == IF file = "scores" THEN remote.scores.data ELSE NoData
LocalData(file) == IF file = "scores" THEN out.data ELSE NoData

\* what the statement at pc does with an exception that no clause of the
\* function caught
Propagate(exc, inTry) ==
    LET h == IF inTry THEN Handler(exc, loop_clauses) ELSE "propagate" IN
    IF h = "break" THEN End("INTERRUPTED", 0)
    ELSE IF h = "sleep" THEN pc' = "exc_sleep" /\ UNCHANGED << phase, exitCode >>
    ELSE IF exc = "SystemExit" THEN End("FATAL", exit_status("None"))
    ELSE IF exc = "KeyboardInterrupt" THEN End("CRASHED", 130)
    ELSE End("CRASHED", 1)

\* lines 52-66: the file is read; open() is in no try block of the function
up_check ==
    /\ pc = "up_check"
    /\ IF ~LocalExists(upFile)
       THEN /\ pc' = upRet
            /\ upFile' = "none"
            /\ upRet' = "none"
            /\ UNCHANGED << phase, exitCode >>
       ELSE \E readable \in BOOLEAN :
               IF readable
               THEN pc' = "up_get" /\ UNCHANGED << phase, exitCode, upFile, upRet >>
               ELSE /\ Propagate("PermissionError", InLoop)
                    /\ upFile' = "none"
                    /\ upRet' = "none"
    /\ UNCHANGED << envVars, callVars, blankWrites, tmp, out, remote, tickVars, sha, lastPut, elapsed >>

\* lines 68-76: the lookup of the file's sha
sha_of_lookup(status) ==
    IF status = "200" THEN [set |-> TRUE, data |-> RemoteData(upFile)] ELSE NoSha

up_get ==
    /\ pc = "up_get"
    /\ \E status \in {"200", "404", "500", "ConnectionError"} :
          /\ status = "200" => RemoteExists(upFile)
          /\ status = "404" => ~RemoteExists(upFile)
          /\ sha' = sha_of_lookup(status)
          /\ pushExc' = IF status \in {"200", "404"} THEN pushExc ELSE status
    /\ pc' = "up_put"
    /\ UNCHANGED << phase, exitCode, envVars, callVars, blankWrites, tmp, out, remote, copyExc, procExc,
                    updated, match_is_complete, tickOut, putSent, upFile, upRet,
                    lastPut, elapsed >>

\* lines 78-94: the PUT; the repository accepts it only with the sha of the
\* file it holds, or without one when it holds none
Accepts(file, s) ==
    IF RemoteExists(file) THEN s.set /\ s.data = RemoteData(file) ELSE ~s.set

up_put ==
    /\ pc = "up_put"
    /\ lastPut' = [sent |-> TRUE, file |-> upFile, withSha |-> sha.set,
                   existed |-> RemoteExists(upFile), data |-> LocalData(upFile)]
    /\ putSent' = TRUE
    /\ \E result \in {"ok", "HTTPError", "ConnectionError"} :
          /\ result = "ok" => Accepts(upFile, sha)
          /\ remote' = IF result # "ok" THEN remote
                       ELSE IF upFile = "scores"
                            THEN [remote EXCEPT !.scores =
                                     [st |-> "whole", data |-> LocalData("scores")]]
                            ELSE [remote EXCEPT !.config = TRUE]
          /\ pushExc' = IF result = "ok" THEN pushExc ELSE result
    /\ pc' = upRet
    /\ upFile' = "none"
    /\ upRet' = "none"
    /\ sha' = NoSha
    /\ UNCHANGED << phase, exitCode, envVars, callVars, blankWrites, tmp, out, copyExc, procExc,
                    updated, match_is_complete, tickOut, elapsed >>

----------------------------------------------------------------------------
(* The poll loop, lines 220-241, with process_scoresheet_data inlined      *)

\* lines 222-224
loop_top ==
    /\ pc = "loop_top"
    /\ IF elapsed > timeout_seconds
       THEN End("TIMED_OUT", 0)
       ELSE pc' = "copy" /\ UNCHANGED << phase, exitCode >>
    /\ copyExc' = "none"
    /\ procExc' = "none"
    /\ pushExc' = "none"
    /\ tickOut' = out
    /\ putSent' = FALSE
    /\ UNCHANGED << envVars, callVars, blankWrites, tmp, out, remote, updated, match_is_complete,
                    upVars, elapsed >>

\* what `return False, False` and `return True, is_complete` leave behind
Return(was_updated, is_complete) ==
    /\ updated' = was_updated
    /\ match_is_complete' = is_complete
    /\ pc' = "after_process"
    /\ UNCHANGED << phase, exitCode >>

\* lines 117-125: shutil.copy opens the source, then creates the scratch file
\* and fills it; an error while it is filled leaves a partial scratch file
copy_left(exc) ==
    IF exc = "none" THEN [st |-> "whole", df |-> sheet]
    ELSE IF exc = "OSError" THEN [st |-> "partial", df |-> << >>]
    ELSE tmp

process_copy ==
    /\ pc = "copy"
    /\ \E exc \in {"none", "PermissionError", "FileNotFoundError", "OSError"} :
          /\ copyExc' = exc
          /\ tmp' = copy_left(exc)
          /\ LET body == IF exc = "none" THEN "pass" ELSE Handler(exc, copy_clauses) IN
             IF body = "pass"
             THEN pc' = "read" /\ UNCHANGED << phase, exitCode, updated, match_is_complete >>
             ELSE IF body = "return False, False"
             THEN Return(FALSE, FALSE)
             ELSE Propagate("SystemExit", TRUE) /\ UNCHANGED << updated, match_is_complete >>
    /\ procExc' = "none"
    /\ UNCHANGED << envVars, callVars, blankWrites, out, remote, pushExc, tickOut, putSent, upVars, elapsed >>

\* lines 160-162
finally_remove == NoTmp

\* lines 127-151, and 157-162 when it raises
process_read ==
    /\ pc = "read"
    /\ LET r == extract(tmp.df, hasSheet, boards_per_round) IN
       IF r.exc = "none"
       THEN /\ pc' = "open_out"
            /\ UNCHANGED << phase, exitCode, tmp, procExc, updated, match_is_complete >>
       ELSE /\ procExc' = r.exc
            /\ Handler(r.exc, process_clauses) = "return False, False"
            /\ Return(FALSE, FALSE)
            /\ tmp' = finally_remove
    /\ UNCHANGED << envVars, callVars, blankWrites, out, remote, copyExc, pushExc, tickOut, putSent, upVars, elapsed >>

\* the file opened for appending: what it held stays
open_a(f) == f

\* line 153: what open(..., 'w') leaves of the file
open_w(f) == [st |-> "empty", data |-> NoData]

\* lines 154-155: json.dump writes the document at the end of the open file;
\* a file that held something before holds more than one document, and its
\* boards are those of all its documents in order
written(f, doc) ==
    IF f.st = "empty"
    THEN [st |-> "whole", data |-> doc]
    ELSE [st |-> "appended", data |-> [doc EXCEPT !.boards = f.data.boards \o doc.boards]]

\* line 153: open(..., 'w') truncates scores.json
process_open ==
    /\ pc = "open_out"
    /\ \E opened \in BOOLEAN :
          IF opened
          THEN /\ out' = open_w(out)
               /\ pc' = "dump"
               /\ UNCHANGED << phase, exitCode, tmp, procExc, updated, match_is_complete >>
          ELSE /\ procExc' = "PermissionError"
               /\ Handler("PermissionError", process_clauses) = "return False, False"
               /\ Return(FALSE, FALSE)
               /\ tmp' = finally_remove
               /\ UNCHANGED out
    /\ UNCHANGED << envVars, callVars, blankWrites, remote, copyExc, pushExc, tickOut, putSent, upVars, elapsed >>

\* lines 154-156: json.dump writes the snapshot piece by piece and the file
\* is closed; when it raises part-way the pieces written so far stay
process_dump ==
    /\ pc = "dump"
    /\ LET r == extract(tmp.df, hasSheet, boards_per_round) IN
       \E dumped \in BOOLEAN :
          IF dumped
          THEN /\ out' = written(out, json_dump([boards |-> r.boards, totals |-> totals]))
               /\ Return(TRUE, r.is_complete)
               /\ UNCHANGED procExc
          ELSE /\ out' = [st |-> "partial", data |-> NoData]
               /\ procExc' = "TypeError"
               /\ Handler("TypeError", process_clauses) = "return False, False"
               /\ Return(FALSE, FALSE)
    /\ tmp' = finally_remove
    /\ UNCHANGED << envVars, callVars, blankWrites, remote, copyExc, pushExc, tickOut, putSent, upVars, elapsed >>

\* lines 228-229
after_process ==
    /\ pc = "after_process"
    /\ IF updated /\ PushEnabled
       THEN pc' = "up_check" /\ upFile' = "scores" /\ upRet' = "check_complete"
       ELSE pc' = "check_complete" /\ UNCHANGED << upFile, upRet >>
    /\ UNCHANGED << phase, exitCode, envVars, callVars, blankWrites, tmp, out, remote, tickVars,
                    sha, lastPut, elapsed >>

\* the loop stopped by the wrong flag of the pair
check_complete_if_updated ==
    /\ pc = "check_complete"
    /\ IF updated
       THEN End("COMPLETE", 0)
       ELSE pc' = "sleep" /\ UNCHANGED << phase, exitCode >>
    /\ UNCHANGED << envVars, callVars, blankWrites, tmp, out, remote, tickVars,
                    upVars, elapsed >>

\* lines 231-233
check_complete ==
    /\ pc = "check_complete"
    /\ IF match_is_complete
       THEN End("COMPLETE", 0)
       ELSE pc' = "sleep" /\ UNCHANGED << phase, exitCode >>
    /\ UNCHANGED << envVars, callVars, blankWrites, tmp, out, remote, tickVars, upVars, elapsed >>

\* line 235
sleep ==
    /\ pc = "sleep"
    /\ elapsed' = elapsed + POLLING_INTERVAL_SECONDS
    /\ pc' = "loop_top"
    /\ UNCHANGED << phase, exitCode, envVars, callVars, blankWrites, tmp, out, remote, tickVars, upVars >>

\* lines 239-241: the sleep of the `except Exception` clause
exc_sleep ==
    /\ pc = "exc_sleep"
    /\ elapsed' = elapsed + POLLING_INTERVAL_SECONDS
    /\ pc' = "loop_top"
    /\ UNCHANGED << phase, exitCode, envVars, callVars, blankWrites, tmp, out, remote, tickVars, upVars >>

\* Ctrl+C while the statement at pc runs. Inside the try block of the loop
\* (lines 221-235) the `except KeyboardInterrupt` clause breaks; the sleep of
\* line 241 is inside no try block. The finally clause of
\* process_scoresheet_data removes the scratch file; a copy or a dump that
\* was under way may leave its file partly written.
InTry ==
    \/ pc \in {"loop_top", "copy", "read", "open_out", "dump", "after_process",
               "check_complete", "sleep"}
    \/ pc \in {"up_check", "up_get", "up_put"} /\ InLoop

interrupt ==
    /\ pc \in {"exc_sleep"} \/ InTry
    /\ Propagate("KeyboardInterrupt", InTry)
    /\ \E cut \in BOOLEAN :
          /\ tmp' = IF pc \in {"read", "open_out", "dump"} THEN finally_remove
                    ELSE IF pc = "copy" /\ cut THEN [st |-> "partial", df |-> << >>]
                    ELSE tmp
          /\ out' = IF pc = "dump" /\ cut THEN [st |-> "partial", data |-> NoData]
                    ELSE out
    /\ UNCHANGED << envVars, callVars, blankWrites, remote, tickVars, upVars, elapsed >>

Next ==
    \/ load_config
    \/ startup
    \/ blank_open
    \/ blank_dump
    \/ start_loop
    \/ up_check
    \/ up_get
    \/ up_put
    \/ loop_top
    \/ process_copy
    \/ process_read
    \/ process_open
    \/ process_dump
    \/ after_process
    \/ check_complete
    \/ sleep
    \/ exc_sleep
    \/ interrupt

Spec == Init /\ [][Next]_vars

----------------------------------------------------------------------------
(* process_scoresheet_data on its own: one call, on any sheet of Sheets    *)

InitExtract ==
    /\ pc = "copy"
    /\ phase = "RUNNING"
    /\ exitCode = -1
    /\ config = "ok"
    /\ boards_per_round \in BoardCounts
    /\ GITHUB_TOKEN = FALSE
    /\ repoInfo = "missing"
    /\ \/ hasSheet = FALSE /\ sheet = << >>
       \/ hasSheet = TRUE /\ sheet \in Sheets
    /\ tmp = NoTmp
    /\ out = [st |-> "whole", data |-> json_dump(blank_data)]
    /\ remote = [scores |-> NoFile, config |-> FALSE]
    /\ copyExc = "none"
    /\ procExc = "none"
    /\ pushExc = "none"
    /\ updated = FALSE
    /\ match_is_complete = FALSE
    /\ upFile = "none"
    /\ upRet = "none"
    /\ sha = NoSha
    /\ lastPut = NoPut
    /\ elapsed = 0
    /\ blankWrites = 1
    /\ tickOut = out
    /\ putSent = FALSE
    /\ calls = 1
    /\ first = NoFirst

\* the next call, on the unchanged workbook, as the next tick makes it
\* (line 226); what the first call returned and left is kept for comparison
call_again ==
    /\ pc = "after_process"
    /\ calls < MaxCalls
    /\ calls' = calls + 1
    /\ first' = IF calls = 1
                THEN [copyExc |-> copyExc, procExc |-> procExc, updated |-> updated,
                      is_complete |-> match_is_complete, out |-> out]
                ELSE first
    /\ pc' = "copy"
    /\ copyExc' = "none"
    /\ procExc' = "none"
    /\ tickOut' = out
    /\ UNCHANGED << phase, exitCode, envVars, blankWrites, tmp, out, remote, pushExc,
                    updated, match_is_complete, putSent, upVars, elapsed >>

NextExtract ==
    \/ process_copy
    \/ process_read
    \/ process_open
    \/ process_dump
    \/ call_again

SpecExtract == InitExtract /\ [][NextExtract]_vars

----------------------------------------------------------------------------
(* Properties                                                              *)

\* a cell that is non-empty after trimming whitespace
HasText(cell) ==
    \/ cell.k = "num"
    \/ cell.k = "str" /\ \E j \in 1..Len(cell.s) : cell.s[j] # " "

\* a cell that is empty or holds whitespace only
Blank(cell) ==
    \/ cell.k = "nan"
    \/ cell.k = "str" /\ \A j \in 1..Len(cell.s) : cell.s[j] = " "

\* the sheet holds the rows of the boards 1..boards_per_round
HasBoardRows == hasSheet /\ boards_per_round <= Len(sheet)

\* both contract cells of the last board row are filled
LastBoardFilled ==
    /\ HasBoardRows
    /\ HasText(sheet[boards_per_round][6])
    /\ HasText(sheet[boards_per_round][18])

\* the leaves of a BoardScore below the top level, with their columns
Leaves ==
    { << "openRoom", "contract", 6 >>, << "openRoom", "scoreNS", 12 >>,
      << "openRoom", "scoreEW", 15 >>, << "closedRoom", "contract", 18 >>,
      << "closedRoom", "scoreNS", 24 >>, << "closedRoom", "scoreEW", 27 >>,
      << "diff", "ns", 30 >>, << "diff", "ew", 33 >>,
      << "imp", "ns", 36 >>, << "imp", "ew", 39 >> }

\* the template numbers the boards 1..boards_per_round in column 0
WellFormed ==
    /\ HasBoardRows
    /\ \A i \in 1..boards_per_round : sheet[i][0] = Num(10 * i)

\* the JSON value e is the cell as it stands, null for an empty cell
Emitted(cell, e) ==
    \/ cell.k = "nan" /\ e = JNull
    \/ cell.k = "num" /\ e.j = "float" /\ e.v = cell.v
    \/ cell.k = "str" /\ e.j = "string" /\ e.s = cell.s

Returned == pc = "after_process"

\* C1: when the copy fails because the source file does not exist, the
\* process terminates as fatal; process_scoresheet_data does not return
\* (False, False) and the loop does not go on.
C1_MissingSourceIsFatal ==
    copyExc = "FileNotFoundError" => pc = "done" /\ phase = "FATAL"

\* C2: every fatal path ends the process with a non-zero exit code; COMPLETE
\* and TIMED_OUT end it with exit code 0.
C2_ExitCodes ==
    /\ phase = "FATAL" => exitCode # 0
    /\ phase \in {"COMPLETE", "TIMED_OUT"} => exitCode = 0

\* C3: outside the span between the copy and the return of
\* process_scoresheet_data the scratch file does not exist while the loop
\* runs; in particular it is absent at the start of every tick.
C3_ScratchRemoved ==
    phase = "RUNNING" /\ pc \notin {"read", "open_out", "dump"} => tmp.st = "absent"

\* C4, as claimed: the returned is_complete is true iff both contract cells
\* of the last board row are non-empty after trimming, whatever else the
\* sheet holds and whatever becomes of the write of the output file. Stated
\* for the calls that favour it most: the copy succeeded and the cells were
\* read without an exception.
C4_CompleteIffLastBoardFilled ==
    Returned /\ copyExc = "none" /\ procExc \notin {"ValueError", "IndexError"} =>
        (match_is_complete <=> LastBoardFilled)

\* C4, amended: when process_scoresheet_data returns was_updated = True,
\* is_complete is true iff both contract cells of the last board row are
\* non-empty after trimming; when it returns was_updated = False, is_complete
\* is False.
C4_CompleteIffLastBoardFilledWhenUpdated ==
    Returned =>
        /\ updated => (match_is_complete <=> LastBoardFilled)
        /\ ~updated => ~match_is_complete

\* a complete round is reported although an earlier board has no contract
C4_Witness ==
    /\ Returned
    /\ updated
    /\ match_is_complete
    /\ boards_per_round >= 2
    /\ isna(sheet[1][6])

\* C5: every cell read that is empty, whitespace-only or unparseable is
\* emitted as null, the boardNumber cell included, and does not keep the
\* boards or the snapshot from being emitted.
C5_EmptyCellsAreNull ==
    Returned /\ copyExc = "none" /\ HasBoardRows =>
        /\ procExc \notin {"ValueError", "IndexError"}
        /\ updated =>
              \A i \in 1..boards_per_round :
                 /\ ~IntOk(sheet[i][0]) => out.data.boards[i].boardNumber = JNull
                 /\ \A f \in Leaves :
                       Blank(sheet[i][f[3]]) => out.data.boards[i][f[1]][f[2]] = JNull

\* C6: on a well-formed sheet a successful call writes a snapshot of exactly
\* boards_per_round boards, the i-th taken from the row of board i
\* (row 9 + (i-1)*3) and numbered i.
C6_BoardsInOrder ==
    Returned /\ updated /\ WellFormed =>
        /\ out.st = "whole"
        /\ Len(out.data.boards) = boards_per_round
        /\ \A i \in 1..boards_per_round :
              /\ out.data.boards[i].boardNumber = JInt(i)
              /\ \A f \in Leaves :
                    Emitted(sheet[i][f[3]], out.data.boards[i][f[1]][f[2]])

\* a snapshot of several boards was written from a well-formed sheet
C6_Witness ==
    /\ Returned
    /\ updated
    /\ WellFormed
    /\ boards_per_round >= 2
    /\ \E i \in 1..boards_per_round : HasText(sheet[i][6])

\* C7: whoever reads scores.json at any moment finds a whole snapshot, never
\* an empty or partly written file.
C7_OutputNeverTorn == out.st \notin {"empty", "partial"}

\* C8: a PUT for a file the repository holds carries a sha; a PUT without a
\* sha is sent only for a file it does not hold.
C8_ShaWheneverRemoteExists ==
    lastPut.sent => (lastPut.existed <=> lastPut.withSha)

\* C9: an interrupt at any point of the poll loop ends it INTERRUPTED with
\* exit code 0 and leaves no torn output file.
C9_InterruptStopsCleanly ==
    [][interrupt =>
          /\ phase' = "INTERRUPTED"
          /\ exitCode' = 0
          /\ out'.st \notin {"empty", "partial"}]_vars

\* C10: a tick that ran into a recoverable failure does not end the process:
\* the loop stays RUNNING and goes to sleep (an interrupt apart).
TickFailed == copyExc # "none" \/ procExc # "none" \/ pushExc # "none"

C10_FailedTickSleeps ==
    [][phase = "RUNNING" /\ pc # "loop_top" /\ TickFailed /\ ~interrupt =>
          /\ phase' = "RUNNING"
          /\ pc = "check_complete" => pc' = "sleep"]_vars

\* the token is set and the descriptor file yields a repository
Configured == GITHUB_TOKEN /\ repoInfo = "slug"

\* the poll loop was entered
LoopEntered == phase \in {"RUNNING", "COMPLETE", "TIMED_OUT", "INTERRUPTED"}

BlankFile == [st |-> "whole", data |-> json_dump(blank_data)]

TickSnapshot ==
    [st |-> "whole",
     data |-> json_dump([boards |-> extract(sheet, hasSheet, boards_per_round).boards,
                         totals |-> totals])]

\* C12: in the terminal state COMPLETE the snapshot of the completing tick is
\* published: scores.json holds it and, with remote push, so does the
\* repository.
C12_CompleteMeansPublished ==
    phase = "COMPLETE" =>
        /\ out = TickSnapshot
        /\ Len(out.data.boards) = boards_per_round
        /\ Configured => remote.scores = out

\* C12, the local half alone
C12_CompleteMeansWrittenLocally ==
    phase = "COMPLETE" =>
        /\ out = TickSnapshot
        /\ Len(out.data.boards) = boards_per_round

\* the tick is past the return of process_scoresheet_data
AfterExtraction ==
    \/ pc \in {"after_process", "check_complete"}
    \/ pc \in {"up_check", "up_get", "up_put"} /\ InLoop

\* the loop becomes COMPLETE only in a tick that extracted a complete round,
\* and after that tick wrote scores.json and, with remote push, sent its PUT
CompleteOnlyAfterPublish ==
    phase = "RUNNING" /\ phase' = "COMPLETE" =>
        /\ updated /\ match_is_complete
        /\ out = TickSnapshot
        /\ Configured => putSent /\ lastPut.data = out.data

\* a sleep lasts the polling interval and leads to the next tick
SleepsAndTicksAgain ==
    pc \in {"sleep", "exc_sleep"} /\ ~interrupt =>
        /\ pc' = "loop_top"
        /\ phase' = "RUNNING"
        /\ elapsed' = elapsed + POLLING_INTERVAL_SECONDS

\* C13, as claimed: the loop leaves RUNNING for COMPLETE in exactly the ticks
\* whose extraction succeeded with isComplete true, after the publish step;
\* every other tick that is not timed out or interrupted sleeps the fixed
\* interval and ticks again.
C13_CompleteExactlyWhenExtractedComplete ==
    [][/\ CompleteOnlyAfterPublish
       /\ phase = "RUNNING" /\ AfterExtraction /\ updated /\ match_is_complete
            /\ ~interrupt => pc' \notin {"sleep", "exc_sleep"}
       /\ pc = "check_complete" /\ ~(updated /\ match_is_complete) /\ ~interrupt =>
            pc' = "sleep"
       /\ SleepsAndTicksAgain]_vars

\* C13, amended: the loop leaves RUNNING for COMPLETE in exactly the ticks
\* whose extraction succeeded with isComplete true and whose push, if any,
\* returned without raising, after the publish step; every other tick that
\* is not timed out or interrupted sleeps the fixed interval and ticks again.
C13_CompleteExactlyWhenPublishReturned ==
    [][/\ CompleteOnlyAfterPublish
       /\ pc = "check_complete" /\ ~interrupt =>
            IF updated /\ match_is_complete
            THEN phase' = "COMPLETE"
            ELSE phase' = "RUNNING" /\ pc' = "sleep"
       /\ phase = "RUNNING" /\ pc # "check_complete" => phase' # "COMPLETE"
       /\ SleepsAndTicksAgain]_vars

\* the loop completed after its push was sent
C13_Witness ==
    /\ phase = "COMPLETE"
    /\ Configured
    /\ putSent
    /\ updated
    /\ match_is_complete

\* no tick that begins past the ceiling starts an extraction, and the clock
\* never runs more than one sleep past the ceiling
NoExtractionAfterCeiling ==
    [][/\ pc = "loop_top" /\ elapsed > timeout_seconds => pc' # "copy"
       /\ elapsed' <= timeout_seconds + POLLING_INTERVAL_SECONDS]_vars

\* C14: the poll loop ends in one of its terminal states (COMPLETE, TIMED_OUT,
\* INTERRUPTED, or the fatal exit for a missing source file), also when a
\* tick fails or raises, and no extraction starts in a tick that begins after
\* the 2-hour ceiling.
C14_LoopEndsInTerminalState ==
    [][/\ phase = "RUNNING" =>
            phase' \in {"RUNNING", "COMPLETE", "TIMED_OUT", "INTERRUPTED", "FATAL"}
       /\ pc = "loop_top" /\ elapsed > timeout_seconds => pc' # "copy"]_vars

\* without remote push nothing is asked of, or sent to, the repository
NoRequestWithoutPush ==
    ~Configured =>
        /\ pc \notin {"up_check", "up_get", "up_put"}
        /\ ~lastPut.sent
        /\ ~putSent
        /\ sha = NoSha
        /\ pushExc = "none"
        /\ remote = [scores |-> [st |-> "whole", data |-> StaleData], config |-> TRUE]

\* C15: when GITHUB_TOKEN or the repository descriptor is absent or
\* unparseable, no remote request is issued in any state of the run, and the
\* run goes on to the startup blank publish and to the poll loop as usual.
C15_PushDisabledRunsAsUsual ==
    [][/\ NoRequestWithoutPush
       /\ pc = "startup" /\ ~Configured => pc' = "blank_open"
       /\ pc = "start_loop" /\ ~Configured => phase' = "RUNNING"]_vars

\* C16: two calls of process_scoresheet_data in a row on the same unchanged
\* workbook, sheet name and boards_per_round, meeting the same outcome of
\* their file operations, return the same pair and leave the same content
\* in scores.json.
C16_SecondCallSameResult ==
    calls = 2 /\ Returned /\ first.copyExc = copyExc /\ first.procExc = procExc =>
        /\ first.updated = updated
        /\ first.is_complete = match_is_complete
        /\ first.out = out

\* both calls wrote a snapshot with at least one board
C16_Witness ==
    /\ calls = 2
    /\ Returned
    /\ first.updated
    /\ updated
    /\ out.st = "whole"
    /\ Len(out.data.boards) >= 1

\* the tick's call of process_scoresheet_data returned was_updated = False
NotUpdatedTick ==
    /\ phase = "RUNNING"
    /\ pc \in {"after_process", "check_complete", "sleep"}
    /\ ~updated

\* a tick that signals 'not updated' sends nothing to the repository
NotUpdatedTickSendsNothing == NotUpdatedTick => ~putSent /\ pushExc = "none"

\* C17: a tick whose extraction signals 'not updated' leaves scores.json
\* exactly as it was before the tick and sends no remote update in that tick.
C17_NotUpdatedTickChangesNothing ==
    NotUpdatedTick => out = tickOut /\ ~putSent

====
